---- MODULE Spec2Model ----
(***************************************************************************)
(* Model of the ledger core of tienda_libros.py: class Tienda on top of    *)
(* DatabaseManager (one pyodbc connection opened with autocommit=False).   *)
(*                                                                         *)
(* The data base is modelled twice: dur is what has been committed, con    *)
(* is what the connection of the program reads and writes (dur plus the    *)
(* statements executed since the last commit or rollback).                 *)
(*                                                                         *)
(* Environment: every write statement (INSERT, UPDATE, DELETE) and every   *)
(* commit may fail with pyodbc.Error; a failed statement changes nothing   *)
(* and a failed commit commits nothing and leaves the transaction open.    *)
(* SELECT statements and conn.rollback() succeed.                          *)
(*                                                                         *)
(* Money is counted in whole units; Decimal(str(float(x))) is exact on     *)
(* the amounts used here (at most 15 significant digits).                  *)
(***************************************************************************)
EXTENDS Integers, Sequences, FiniteSets, TLC

\* ---------------------------------------------------------------- bounds

MaxOps == 3
MaxCant == 2

ISBNs == {"A", "B"}
Titulos == {"El Faro"}
PreciosCompra == {2}
PreciosVenta == {3}
\* inversion_inicial_default values passed to Tienda(...)
Semillas == {3, 5}
\* values a 'Caja' row left by an earlier run may hold
CajasGuardadas == {4}
\* cantidad_inicial as the form lets it through (>= 0)
CantidadesRegistro == 0..MaxCant
\* cantidad of abastecer_libro / vender_libro as a caller may pass it
CantidadesMovimiento == (-1)..MaxCant

VARIABLES
    fase,      \* "nueva": Tienda not yet constructed; "lista": constructed
    dur,       \* committed contents of the data base
    con,       \* contents as seen through the connection (dur + pending)
    caja,      \* Tienda.caja
    semilla,   \* history: the balance Tienda.__init__ adopted
    ingresos,  \* history: sale income of the vender_libro calls that returned True
    egresos,   \* history: restock cost of the calls that returned True
    ult,       \* the last call: operation, arguments, result, gateway calls
    nops,      \* number of calls so far (also the clock of datetime.now())
    abastos,   \* history: per identifier, the restocks that committed since it
               \* was registered, the funded initial stock counted as one
    otra       \* a second Tienda on the same store, while the first one is
               \* the caller: its caja and its history

vars == <<fase, dur, con, caja, semilla, ingresos, egresos, ult, nops, abastos, otra>>

\* ---------------------------------------------------------- data base

\* Tables Libros, Transacciones, ConfiguracionTienda (row 'Caja' present: cfg
\* = {Valor}, absent: cfg = {}).  cascada is a history field: the net amount
\* (sale income - restock cost) of the Transacciones rows that ON DELETE
\* CASCADE removed; it follows the fate of the DELETE that removed them.
BD(libros, trans, cfg, cascada) ==
    [libros |-> libros, trans |-> trans, cfg |-> cfg, cascada |-> cascada]

FilaLibro(isbn, titulo, pc, pv, cant) ==
    [isbn |-> isbn, titulo |-> titulo, pc |-> pc, pv |-> pv, cant |-> cant]

FilaTrans(id, isbn, tipo, cant, fecha) ==
    [id |-> id, isbn |-> isbn, tipo |-> tipo, cant |-> cant, fecha |-> fecha]

FilasDe(db, isbn) == {f \in db.libros : f.isbn = isbn}

\* sale income (+) or restock cost (-) a Transacciones row stands for, at the
\* prices of the Libros row it references
MontoTrans(db, t) ==
    LET f == CHOOSE x \in FilasDe(db, t.isbn) : TRUE IN
    IF t.tipo = "venta" THEN f.pv * t.cant ELSE 0 - f.pc * t.cant

RECURSIVE MontoDe(_, _)
MontoDe(db, T) ==
    IF T = {} THEN 0
    ELSE LET t == CHOOSE x \in T : TRUE IN MontoTrans(db, t) + MontoDe(db, T \ {t})

\* sum of the quantities of the entries of T
RECURSIVE CantidadDe(_)
CantidadDe(T) ==
    IF T = {} THEN 0
    ELSE LET t == CHOOSE x \in T : TRUE IN t.cant + CantidadDe(T \ {t})

\* a foreign key without ON DELETE CASCADE
SinCascada(db, isbn) == {}

\* "ON DELETE CASCADE en la FK": the Transacciones rows that go with a book
Cascada(db, isbn) == {t \in db.trans : t.isbn = isbn}

\* cursor.execute of one write statement
Ejecutar(db, s) ==
    CASE s.t = "ins_libro" -> [db EXCEPT !.libros = @ \cup {s.fila}]
      [] s.t = "upd_cant" ->
            [db EXCEPT !.libros =
                {IF f.isbn = s.isbn THEN [f EXCEPT !.cant = s.cant] ELSE f : f \in @}]
      [] s.t = "upd_caja" ->
            [db EXCEPT !.cfg = IF @ = {} THEN {} ELSE {s.valor}]
      [] s.t = "ins_caja" -> [db EXCEPT !.cfg = @ \cup {s.valor}]
      [] s.t = "ins_trans" -> [db EXCEPT !.trans = @ \cup {s.fila}]
      [] s.t = "del_libro" ->
            LET idas == Cascada(db, s.isbn) IN
            [db EXCEPT !.libros = {f \in @ : f.isbn # s.isbn},
                       !.trans = @ \ idas,
                       !.cascada = @ + MontoDe(db, idas)]

RECURSIVE EjecutarHasta(_, _, _)
EjecutarHasta(db, stmts, k) ==
    IF k = 0 THEN db ELSE Ejecutar(EjecutarHasta(db, stmts, k - 1), stmts[k])

InsLibro(fila) == [t |-> "ins_libro", fila |-> fila]
UpdCant(isbn, cant) == [t |-> "upd_cant", isbn |-> isbn, cant |-> cant]
UpdCaja(valor) == [t |-> "upd_caja", valor |-> valor]
InsCaja(valor) == [t |-> "ins_caja", valor |-> valor]
InsTrans(fila) == [t |-> "ins_trans", fila |-> fila]
DelLibro(isbn) == [t |-> "del_libro", isbn |-> isbn]

\* DatabaseManager.commit / conn.commit(): everything pending becomes durable
Commit(pendiente) == pendiente

\* DatabaseManager.rollback: the connection is back at the committed contents
Rollback(comprometido) == comprometido

\* What the gateway did for one call of the core.
Gateway(c, d, ok, esc, escOK, commits, rollbacks) ==
    [con |-> c, dur |-> d, ok |-> ok, esc |-> esc, escOK |-> escOK,
     commits |-> commits, rollbacks |-> rollbacks]

\* commit_flag ignored: the statement is executed and True is returned
EjecutarSinCommit(s, falla) ==
    IF falla = 1 THEN Gateway(con, dur, FALSE, 1, 0, 0, 0)
    ELSE Gateway(Ejecutar(con, s), dur, TRUE, 1, 1, 0, 0)

\* execute_query(..., commit_flag=True): one statement and conn.commit() inside
\* the same try; on pyodbc.Error it returns False and nothing is rolled back.
\* falla = 1: cursor.execute raises; falla = 2: conn.commit raises.
EjecutarConCommit(s, falla) ==
    IF falla = 1 THEN Gateway(con, dur, FALSE, 1, 0, 0, 0)
    ELSE LET c == Ejecutar(con, s) IN
         IF falla = 2 THEN Gateway(c, dur, FALSE, 1, 1, 1, 0)
         ELSE Gateway(c, Commit(c), TRUE, 1, 1, 1, 0)

\* an except clause that does not call db.rollback()
UnidadSinRollback(stmts, falla) ==
    LET n == Len(stmts) IN
    IF falla = 0
    THEN LET c == EjecutarHasta(con, stmts, n) IN Gateway(c, Commit(c), TRUE, n, n, 1, 0)
    ELSE IF falla <= n
    THEN Gateway(EjecutarHasta(con, stmts, falla - 1), dur, FALSE, falla, falla - 1, 0, 0)
    ELSE Gateway(EjecutarHasta(con, stmts, n), dur, FALSE, n, n, 1, 0)

\* The try/except of registrar_libro, abastecer_libro and vender_libro: the
\* statements in order, then db.commit(); the first execute_query that returns
\* False raises, a commit that fails re-raises, and the except clause calls
\* db.rollback().  falla = k in 1..Len(stmts): statement k fails;
\* falla = Len(stmts) + 1: the commit fails; falla = 0: nothing fails.
Unidad(stmts, falla) ==
    LET n == Len(stmts) IN
    IF falla = 0
    THEN LET c == EjecutarHasta(con, stmts, n) IN Gateway(c, Commit(c), TRUE, n, n, 1, 0)
    ELSE IF falla <= n
    THEN Gateway(Rollback(dur), dur, FALSE, falla, falla - 1, 0, 1)
    ELSE Gateway(Rollback(dur), dur, FALSE, n, n, 1, 1)

\* ------------------------------------------------------------ Tienda

\* Decimal(str(float(x))) of a stored amount
DecimalDeFloat(x) == x

\* Libro(row.ISBN, row.Titulo, float(row.PrecioCompra), float(row.PrecioVenta),
\* row.CantidadActual)
Libro(fila) ==
    [isbn |-> fila.isbn, titulo |-> fila.titulo,
     precio_compra |-> DecimalDeFloat(fila.pc),
     precio_venta |-> DecimalDeFloat(fila.pv),
     cantidad_actual |-> fila.cant,
     total_vendido_consulta |-> 0]

\* buscar_libro_por_isbn: is there a row (fetchone() is not None) ...
ExisteLibro(isbn) == FilasDe(con, isbn) # {}

\* ... and the Libro built from it
BuscarLibro(isbn) == Libro(CHOOSE f \in FilasDe(con, isbn) : TRUE)

\* every lookup taken as empty
SiempreAusente(isbn) == TRUE

\* eliminar_libro: "if not self.buscar_libro_por_isbn(isbn)"; abastecer_libro
\* and vender_libro: "if not libro"
LibroAusente(isbn) == ~ExisteLibro(isbn)

\* the duplicate check dropped
NuncaExiste(isbn) == FALSE

\* registrar_libro: "if self.buscar_libro_por_isbn(isbn)"
YaExiste(isbn) == ExisteLibro(isbn)

\* the cost of one copy too many
CostoDeMas(precio_compra, cantidad) == precio_compra * (cantidad + 1)

CostoAbastecimiento(precio_compra, cantidad) == precio_compra * cantidad

\* a restock that takes the whole balance refused
CajaSobra(c, costo) == c > costo

\* a balance check that always passes
CajaSiempreAlcanza(c, costo) == TRUE

\* "self.caja >= costo_abastecimiento", the negation of "self.caja < costo"
CajaAlcanza(c, costo) == c >= costo

\* a sale credited at the purchase price
IngresoVentaAlCosto(libro, cantidad) == libro.precio_compra * cantidad

IngresoVenta(libro, cantidad) == libro.precio_venta * cantidad

\* the stock check dropped
StockNuncaInsuficiente(libro, cantidad) == FALSE

\* "libro.cantidad_actual < cantidad"
StockInsuficiente(libro, cantidad) == libro.cantidad_actual < cantidad

\* a quantity of 0 let through
CantidadNegativa(cantidad) == cantidad < 0

\* "cantidad <= 0"
CantidadInvalida(cantidad) == cantidad <= 0

\* the except clause without the assignment to self.caja
CajaSinRevertir(original, alFallar) == alFallar

\* except clause: "self.caja = original_caja_val"
CajaRevertida(original, alFallar) == original

\* SELECT statements a call issues: each operation begins with exactly one
\* (buscar_libro_por_isbn, or the read of 'Caja' in the constructor) and
\* issues no other
Lecturas(op) == IF op = "ninguna" THEN 0 ELSE 1

\* The record of a call: operation, arguments, result (ok, cod) and the calls
\* made on the gateway: esc write statements issued, escOK of them executed,
\* lect SELECTs, commits and rollbacks.  defecto is the argument of the
\* constructor; arg and res are the title argument and the value returned by
\* a read method.
Llamada(op, isbn, cant, pc, pv, cod, g) ==
    [op |-> op, isbn |-> isbn, cant |-> cant, pc |-> pc, pv |-> pv,
     ok |-> g.ok, cod |-> cod, esc |-> g.esc, escOK |-> g.escOK,
     lect |-> Lecturas(op), commits |-> g.commits, rollbacks |-> g.rollbacks,
     defecto |-> 0, arg |-> <<>>, res |-> <<>>]

\* the row 'Caja' never found
NuncaHayCaja(db) == FALSE

\* _cargar_caja_desde_db: "if row"
HayCaja(db) == db.cfg # {}

\* self.caja given the default only once the INSERT went through
CajaSembradaSiPersiste(porDefecto, persistida) == IF persistida THEN porDefecto ELSE 0

\* _cargar_caja_desde_db, else branch: self.caja is given the default before
\* the INSERT and keeps it whatever the INSERT returns
CajaSembrada(porDefecto, persistida) == porDefecto

\* a call that returns before its first write
Rechazo == Gateway(con, dur, FALSE, 0, 0, 0, 0)

Reloj == nops + 1

\* a Tienda object before its constructor has run
SinConstruir ==
    [quien |-> 2, fase |-> "nueva", caja |-> 0, semilla |-> 0, ingresos |-> 0, egresos |-> 0]

Init ==
    /\ fase = "nueva"
    /\ \E cfg \in {{}} \cup {{v} : v \in CajasGuardadas} :
          /\ dur = BD({}, {}, cfg, 0)
          /\ con = BD({}, {}, cfg, 0)
    /\ caja = 0
    /\ semilla = 0
    /\ ingresos = 0
    /\ egresos = 0
    /\ ult = Llamada("ninguna", "", 0, 0, 0, "", Gateway(con, dur, TRUE, 0, 0, 0, 0))
    /\ nops = 0
    /\ abastos = [i \in ISBNs |-> 0]
    /\ otra = SinConstruir

\* Tienda.__init__ and _cargar_caja_desde_db
CargarCaja(valorPorDefecto, falla) ==
    /\ fase = "nueva"
    /\ fase' = "lista"
    /\ LET hay == HayCaja(con)
           g == IF hay THEN Gateway(con, dur, TRUE, 0, 0, 0, 0)
                ELSE EjecutarConCommit(InsCaja(valorPorDefecto), falla)
           c == IF hay THEN CHOOSE v \in con.cfg : TRUE
                ELSE CajaSembrada(valorPorDefecto, g.ok)
       IN /\ hay => falla = 0
          /\ con' = g.con
          /\ dur' = g.dur
          /\ caja' = c
          /\ semilla' = c
          /\ ult' = [Llamada("cargar", "", 0, 0, 0,
                             IF hay THEN "cargada"
                             ELSE IF g.ok THEN "sembrada" ELSE "sin_persistir",
                             g) EXCEPT !.defecto = valorPorDefecto]
    /\ UNCHANGED <<ingresos, egresos, nops, abastos, otra>>

RegistrarLibro(isbn, titulo, precio_compra, precio_venta, cantidad_inicial, falla) ==
    /\ fase = "lista"
    /\ nops < MaxOps
    /\ nops' = nops + 1
    /\ UNCHANGED <<fase, semilla, ingresos, otra>>
    /\ IF YaExiste(isbn)
       THEN /\ falla = 0
            /\ ult' = Llamada("registrar", isbn, cantidad_inicial, precio_compra,
                              precio_venta, "ya_existe", Rechazo)
            /\ UNCHANGED <<dur, con, caja, egresos, abastos>>
       ELSE LET fila == FilaLibro(isbn, titulo, precio_compra, precio_venta, cantidad_inicial)
                costo == CostoAbastecimiento(precio_compra, cantidad_inicial)
                conStock == cantidad_inicial > 0
                fondeado == conStock /\ CajaAlcanza(caja, costo)
                cajaNueva == IF fondeado THEN caja - costo ELSE caja
                stmts == IF ~conStock THEN <<InsLibro(fila)>>
                         ELSE IF fondeado
                         THEN <<InsLibro(fila), UpdCaja(cajaNueva),
                                InsTrans(FilaTrans(Reloj, isbn, "abastecimiento",
                                                   cantidad_inicial, Reloj))>>
                         ELSE <<InsLibro(fila), UpdCant(isbn, 0)>>
                g == Unidad(stmts, falla)
                \* self.caja when the exception is raised
                alFallar == IF falla >= 2 THEN cajaNueva ELSE caja
            IN /\ falla <= Len(stmts) + 1
               /\ con' = g.con
               /\ dur' = g.dur
               /\ caja' = IF g.ok THEN cajaNueva ELSE CajaRevertida(caja, alFallar)
               /\ egresos' = IF g.ok /\ fondeado
                             THEN egresos + precio_compra * cantidad_inicial
                             ELSE egresos
               /\ abastos' = IF g.ok
                             THEN [abastos EXCEPT ![isbn] = IF fondeado THEN 1 ELSE 0]
                             ELSE abastos
               /\ ult' = Llamada("registrar", isbn, cantidad_inicial, precio_compra,
                                 precio_venta,
                                 IF ~g.ok THEN "error"
                                 ELSE IF conStock /\ ~fondeado THEN "sin_fondos" ELSE "ok",
                                 g)

EliminarLibro(isbn, falla) ==
    /\ fase = "lista"
    /\ nops < MaxOps
    /\ nops' = nops + 1
    /\ UNCHANGED <<fase, caja, semilla, ingresos, egresos, abastos, otra>>
    /\ IF LibroAusente(isbn)
       THEN /\ falla = 0
            /\ ult' = Llamada("eliminar", isbn, 0, 0, 0, "no_existe", Rechazo)
            /\ UNCHANGED <<dur, con>>
       ELSE LET g == EjecutarConCommit(DelLibro(isbn), falla)
            IN /\ con' = g.con
               /\ dur' = g.dur
               /\ ult' = Llamada("eliminar", isbn, 0, 0, 0,
                                 IF g.ok THEN "ok" ELSE "error", g)

AbastecerLibro(isbn, cantidad, falla) ==
    /\ fase = "lista"
    /\ nops < MaxOps
    /\ nops' = nops + 1
    /\ UNCHANGED <<fase, semilla, ingresos, otra>>
    /\ LET rechazo(cod) ==
              /\ falla = 0
              /\ ult' = Llamada("abastecer", isbn, cantidad, 0, 0, cod, Rechazo)
              /\ UNCHANGED <<dur, con, caja, egresos, abastos>>
       IN IF LibroAusente(isbn) THEN rechazo("no_existe")
          ELSE IF CantidadInvalida(cantidad) THEN rechazo("cantidad")
          ELSE LET libro == BuscarLibro(isbn)
                   costo == CostoAbastecimiento(libro.precio_compra, cantidad)
               IN IF ~CajaAlcanza(caja, costo) THEN rechazo("caja_insuficiente")
                  ELSE LET cajaNueva == caja - costo
                           stmts == <<UpdCant(isbn, libro.cantidad_actual + cantidad),
                                      UpdCaja(cajaNueva),
                                      InsTrans(FilaTrans(Reloj, isbn, "abastecimiento",
                                                         cantidad, Reloj))>>
                           g == Unidad(stmts, falla)
                           alFallar == IF falla >= 2 THEN cajaNueva ELSE caja
                           fila == CHOOSE f \in FilasDe(con, isbn) : TRUE
                       IN /\ falla <= Len(stmts) + 1
                          /\ con' = g.con
                          /\ dur' = g.dur
                          /\ caja' = IF g.ok THEN cajaNueva ELSE CajaRevertida(caja, alFallar)
                          /\ egresos' = IF g.ok THEN egresos + fila.pc * cantidad ELSE egresos
                          /\ abastos' = IF g.ok THEN [abastos EXCEPT ![isbn] = @ + 1]
                                        ELSE abastos
                          /\ ult' = Llamada("abastecer", isbn, cantidad, 0, 0,
                                            IF g.ok THEN "ok" ELSE "error", g)

VenderLibro(isbn, cantidad, falla) ==
    /\ fase = "lista"
    /\ nops < MaxOps
    /\ nops' = nops + 1
    /\ UNCHANGED <<fase, semilla, egresos, abastos, otra>>
    /\ LET rechazo(cod) ==
              /\ falla = 0
              /\ ult' = Llamada("vender", isbn, cantidad, 0, 0, cod, Rechazo)
              /\ UNCHANGED <<dur, con, caja, ingresos>>
       IN IF LibroAusente(isbn) THEN rechazo("no_existe")
          ELSE IF CantidadInvalida(cantidad) THEN rechazo("cantidad")
          ELSE LET libro == BuscarLibro(isbn)
               IN IF StockInsuficiente(libro, cantidad) THEN rechazo("stock_insuficiente")
                  ELSE LET cajaNueva == caja + IngresoVenta(libro, cantidad)
                           stmts == <<UpdCant(isbn, libro.cantidad_actual - cantidad),
                                      UpdCaja(cajaNueva),
                                      InsTrans(FilaTrans(Reloj, isbn, "venta",
                                                         cantidad, Reloj))>>
                           g == Unidad(stmts, falla)
                           alFallar == IF falla >= 2 THEN cajaNueva ELSE caja
                           fila == CHOOSE f \in FilasDe(con, isbn) : TRUE
                       IN /\ falla <= Len(stmts) + 1
                          /\ con' = g.con
                          /\ dur' = g.dur
                          /\ caja' = IF g.ok THEN cajaNueva ELSE CajaRevertida(caja, alFallar)
                          /\ ingresos' = IF g.ok THEN ingresos + fila.pv * cantidad ELSE ingresos
                          /\ ult' = Llamada("vender", isbn, cantidad, 0, 0,
                                            IF g.ok THEN "ok" ELSE "error", g)

Fallas == 0..4

\* ------------------------------------------------------ read methods
\*
\* A title and the argument of buscar_libros_por_titulo are sequences of
\* character codes (65..90 "A".."Z", 97..122 "a".."z", 95 "_", 37 "%").
\* A SELECT returns the rows it selects in the order its ORDER BY fixes; the
\* order of rows that ORDER BY does not tell apart, and of all rows when there
\* is no ORDER BY, is the data base's choice at each execution, and so is the
\* row TOP 1 keeps among such rows.  Each read method below is the set of the
\* values it may return.

\* the data base compares titles without regard to case
Minuscula(c) == IF c >= 65 /\ c <= 90 THEN c + 32 ELSE c

\* t LIKE p: "%" stands for any run of characters, "_" for any one character
RECURSIVE Like(_, _)
Like(p, t) ==
    IF p = <<>> THEN t = <<>>
    ELSE IF Head(p) = 37 THEN Like(Tail(p), t) \/ (t # <<>> /\ Like(p, Tail(t)))
    ELSE /\ t # <<>>
         /\ (Head(p) = 95 \/ Minuscula(Head(p)) = Minuscula(Head(t)))
         /\ Like(Tail(p), Tail(t))

\* f'%{titulo_parcial}%'
PatronTitulo(titulo_parcial) == <<37>> \o titulo_parcial \o <<37>>

\* ORDER BY Titulo: a sorts no later than b
RECURSIVE TituloMenorIgual(_, _)
TituloMenorIgual(a, b) ==
    IF a = <<>> THEN TRUE
    ELSE IF b = <<>> THEN FALSE
    ELSE IF Minuscula(Head(a)) # Minuscula(Head(b))
         THEN Minuscula(Head(a)) < Minuscula(Head(b))
         ELSE TituloMenorIgual(Tail(a), Tail(b))

\* the sequences that list every element of S once
Permutaciones(S) ==
    {q \in [1..Cardinality(S) -> S] : \A i, j \in 1..Cardinality(S) : i # j => q[i] # q[j]}

\* no ORDER BY
SinOrden(x, y) == TRUE

\* ORDER BY Titulo
PorTitulo(x, y) == TituloMenorIgual(x.titulo, y.titulo)

\* ORDER BY FechaTransaccion without DESC
PorFechaAlReves(x, y) == x.fecha <= y.fecha

\* ORDER BY FechaTransaccion DESC
PorFechaDesc(x, y) == x.fecha >= y.fecha

\* ORDER BY PrecioVenta ASC
PorPrecioVentaAsc(x, y) == x.pv <= y.pv

\* ORDER BY PrecioVenta without DESC
PorPrecioVentaAlReves(x, y) == x.pv <= y.pv

\* ORDER BY PrecioVenta DESC
PorPrecioVentaDesc(x, y) == x.pv >= y.pv

\* ORDER BY TotalVendido DESC
PorTotalVendidoDesc(x, y) == x.TotalVendido >= y.TotalVendido

\* the ORDER BY clause orden lets row x come before row y
Antes(orden, x, y) ==
    CASE orden = "ninguno" -> SinOrden(x, y)
      [] orden = "Titulo" -> PorTitulo(x, y)
      [] orden = "FechaTransaccion DESC" -> PorFechaDesc(x, y)
      [] orden = "PrecioVenta ASC" -> PorPrecioVentaAsc(x, y)
      [] orden = "PrecioVenta DESC" -> PorPrecioVentaDesc(x, y)
      [] orden = "TotalVendido DESC" -> PorTotalVendidoDesc(x, y)

\* the orders in which a SELECT may return the rows S: any order that agrees
\* with its ORDER BY clause
OrdenesPosibles(S, orden) ==
    {q \in Permutaciones(S) :
        \A i, j \in 1..Cardinality(S) : i < j => Antes(orden, q[i], q[j])}

\* "[Libro(...) for r in rows] if rows else []"
Libros(filas) == [i \in 1..Len(filas) |-> Libro(filas[i])]

\* "if row: return Libro(...)" / "return None" on the first row of a TOP 1
PrimerLibro(filas) == IF filas = <<>> THEN <<>> ELSE <<Libro(filas[1])>>

\* Transaccion(r.TipoTransaccion, r.Cantidad, r.FechaTransaccion, r.ID, r.LibroISBN)
Transaccion(fila) ==
    [id |-> fila.id, libro_isbn |-> fila.isbn, tipo |-> fila.tipo,
     fecha |-> fila.fecha, cantidad |-> fila.cant]

\* buscar_libros_por_titulo: WHERE Titulo LIKE ?, no ORDER BY
BuscarLibrosPorTitulo(db, titulo_parcial) ==
    {Libros(q) : q \in OrdenesPosibles(
        {f \in db.libros : Like(PatronTitulo(titulo_parcial), f.titulo)}, "ninguno")}

\* the count taken over the entries of every kind
DeCualquierTipo(t) == TRUE

\* "AND TipoTransaccion = 'abastecimiento'"
EsAbastecimiento(t) == t.tipo = "abastecimiento"

\* every sale entry counted once more
TotalVendidoDeMas(db, isbn) ==
    CantidadDe({t \in db.trans : t.isbn = isbn /\ t.tipo = "venta"})
    + Cardinality({t \in db.trans : t.isbn = isbn /\ t.tipo = "venta"})

\* calcular_transacciones_abastecimiento: (False, "... no existe") when the
\* lookup finds no book, else (True, COUNT(*))
CalcularTransaccionesAbastecimiento(db, isbn) ==
    IF FilasDe(db, isbn) = {} THEN <<FALSE>>
    ELSE <<TRUE, Cardinality({t \in db.trans : t.isbn = isbn /\ EsAbastecimiento(t)})>>

\* buscar_libro_mas_costoso: TOP 1 ... ORDER BY PrecioVenta DESC
BuscarLibroMasCostoso(db) ==
    {PrimerLibro(q) : q \in OrdenesPosibles(db.libros, "PrecioVenta DESC")}

\* buscar_libro_menos_costoso: TOP 1 ... ORDER BY PrecioVenta ASC
BuscarLibroMenosCostoso(db) ==
    {PrimerLibro(q) : q \in OrdenesPosibles(db.libros, "PrecioVenta ASC")}

\* SUM(T.Cantidad) of the 'venta' rows joined to a Libros row
TotalVendido(db, isbn) ==
    CantidadDe({t \in db.trans : t.isbn = isbn /\ t.tipo = "venta"})

\* the groups of buscar_libro_mas_vendido: Libros JOIN Transacciones WHERE
\* TipoTransaccion = 'venta' GROUP BY the book HAVING SUM(T.Cantidad) > 0
GruposVendidos(db) ==
    {[fila |-> f, TotalVendido |-> TotalVendido(db, f.isbn)] :
        f \in {x \in db.libros :
                   /\ \E t \in db.trans : t.isbn = x.isbn /\ t.tipo = "venta"
                   /\ TotalVendido(db, x.isbn) > 0}}

\* buscar_libro_mas_vendido: TOP 1 ... ORDER BY TotalVendido DESC
BuscarLibroMasVendido(db) ==
    {IF q = <<>> THEN <<>>
     ELSE <<[Libro(q[1].fila) EXCEPT !.total_vendido_consulta = q[1].TotalVendido]>> :
        q \in OrdenesPosibles(GruposVendidos(db), "TotalVendido DESC")}

\* obtener_catalogo_completo: ORDER BY Titulo
ObtenerCatalogoCompleto(db) ==
    {Libros(q) : q \in OrdenesPosibles(db.libros, "Titulo")}

\* buscar_libro_por_isbn after the call: the rows the connection finds
BuscarLibroPorIsbn(db, isbn) == {Libro(f) : f \in FilasDe(db, isbn)}

\* obtener_catalogo_completo: the identifiers of the books returned
IsbnsDelCatalogoCompleto(db) == {f.isbn : f \in db.libros}

\* obtener_transacciones_de_libro: the rows of Transacciones selected by
\* "WHERE LibroISBN = ?"
ObtenerTransaccionesDeLibro(db, isbn) == {t \in db.trans : t.isbn = isbn}

\* obtener_transacciones_de_libro: ... ORDER BY FechaTransaccion DESC
ObtenerTransaccionesOrdenadas(db, isbn) ==
    {[i \in 1..Len(q) |-> Transaccion(q[i])] :
        q \in OrdenesPosibles(ObtenerTransaccionesDeLibro(db, isbn), "FechaTransaccion DESC")}

\* a read method that commits
LecturaConCommit == Gateway(con, Commit(con), TRUE, 0, 0, 1, 0)

\* a read method uses the gateway for execute_query(..., fetchone / fetchall)
\* only: no write statement, no commit, no rollback
SoloLectura == Gateway(con, dur, TRUE, 0, 0, 0, 0)

\* a call of a read method: lect SELECTs issued, res returned
Consulta(op, isbn, arg, lect, res) ==
    /\ fase = "lista"
    /\ con' = SoloLectura.con
    /\ dur' = SoloLectura.dur
    /\ ult' = [Llamada(op, isbn, 0, 0, 0, "consulta", SoloLectura)
                 EXCEPT !.lect = lect, !.arg = arg, !.res = res]
    /\ UNCHANGED <<fase, caja, semilla, ingresos, egresos, nops, abastos, otra>>

ConsultarLibroPorIsbn(isbn) ==
    Consulta("buscar_libro_por_isbn", isbn, <<>>, 1,
             IF ExisteLibro(isbn) THEN <<BuscarLibro(isbn)>> ELSE <<>>)

ConsultarLibrosPorTitulo(titulo_parcial) ==
    \E r \in BuscarLibrosPorTitulo(con, titulo_parcial) :
        Consulta("buscar_libros_por_titulo", "", titulo_parcial, 1, r)

ConsultarAbastecimientos(isbn) ==
    Consulta("calcular_transacciones_abastecimiento", isbn, <<>>,
             IF ExisteLibro(isbn) THEN 2 ELSE 1,
             CalcularTransaccionesAbastecimiento(con, isbn))

ConsultarMasCostoso ==
    \E r \in BuscarLibroMasCostoso(con) :
        Consulta("buscar_libro_mas_costoso", "", <<>>, 1, r)

ConsultarMenosCostoso ==
    \E r \in BuscarLibroMenosCostoso(con) :
        Consulta("buscar_libro_menos_costoso", "", <<>>, 1, r)

ConsultarMasVendido ==
    \E r \in BuscarLibroMasVendido(con) :
        Consulta("buscar_libro_mas_vendido", "", <<>>, 1, r)

ConsultarCatalogo ==
    \E r \in ObtenerCatalogoCompleto(con) :
        Consulta("obtener_catalogo_completo", "", <<>>, 1, r)

ConsultarTransacciones(isbn) ==
    \E r \in ObtenerTransaccionesOrdenadas(con, isbn) :
        Consulta("obtener_transacciones_de_libro", isbn, <<>>, 1, r)

\* Inputs of the runs with read methods.  Title and sale price of a book
\* registered: "Za" at 4 or "b" at 3 (two books may take the same pair and
\* then tie on both); title arguments "A" and "_"; a failure is none or the
\* second gateway call of the operation (the commit of the constructor and
\* of a delete, the second statement or the commit of a unit).
LibrosConsulta == {<<(<<90, 97>>), 4>>, <<(<<98>>), 3>>}
ArgumentosTitulo == {<<65>>, <<95>>}
SemillasConsulta == {5}
CantidadesRegistroConsulta == {0, 2}
CantidadesMovimientoConsulta == {1, 2}
FallasConsulta == {0, 2}

Next ==
    \/ \E s \in Semillas, falla \in Fallas : CargarCaja(s, falla)
    \/ \E isbn \in ISBNs, titulo \in Titulos, pc \in PreciosCompra, pv \in PreciosVenta,
          q \in CantidadesRegistro, falla \in Fallas :
          RegistrarLibro(isbn, titulo, pc, pv, q, falla)
    \/ \E isbn \in ISBNs, falla \in Fallas : EliminarLibro(isbn, falla)
    \/ \E isbn \in ISBNs, q \in CantidadesMovimiento, falla \in Fallas :
          AbastecerLibro(isbn, q, falla)
    \/ \E isbn \in ISBNs, q \in CantidadesMovimiento, falla \in Fallas :
          VenderLibro(isbn, q, falla)

Spec == Init /\ [][Next]_vars

\* The same operations on books that differ in title and sale price, with
\* the read methods called between them.
NextConsultas ==
    \/ \E s \in SemillasConsulta, falla \in FallasConsulta : CargarCaja(s, falla)
    \/ \E isbn \in ISBNs, l \in LibrosConsulta, pc \in PreciosCompra,
          q \in CantidadesRegistroConsulta, falla \in FallasConsulta :
          RegistrarLibro(isbn, l[1], pc, l[2], q, falla)
    \/ \E isbn \in ISBNs, falla \in FallasConsulta : EliminarLibro(isbn, falla)
    \/ \E isbn \in ISBNs, q \in CantidadesMovimientoConsulta, falla \in FallasConsulta :
          AbastecerLibro(isbn, q, falla)
    \/ \E isbn \in ISBNs, q \in CantidadesMovimientoConsulta, falla \in FallasConsulta :
          VenderLibro(isbn, q, falla)
    \/ \E isbn \in ISBNs : ConsultarLibroPorIsbn(isbn)
    \/ \E a \in ArgumentosTitulo : ConsultarLibrosPorTitulo(a)
    \/ \E isbn \in ISBNs : ConsultarAbastecimientos(isbn)
    \/ ConsultarMasCostoso
    \/ ConsultarMenosCostoso
    \/ ConsultarMasVendido
    \/ ConsultarCatalogo
    \/ \E isbn \in ISBNs : ConsultarTransacciones(isbn)

SpecConsultas == Init /\ [][NextConsultas]_vars
\* A store that an earlier session left behind: the balance row and a book
\* registered with initial quantity 0, so no entry and no movement of money.
LibrosGuardados == {FilaLibro("B", "El Faro", 2, 3, 0)}

InitSesion ==
    /\ fase = "nueva"
    /\ \E cfg \in {{v} : v \in CajasGuardadas} :
          /\ dur = BD(LibrosGuardados, {}, cfg, 0)
          /\ con = BD(LibrosGuardados, {}, cfg, 0)
    /\ caja = 0
    /\ semilla = 0
    /\ ingresos = 0
    /\ egresos = 0
    /\ ult = Llamada("ninguna", "", 0, 0, 0, "", Gateway(con, dur, TRUE, 0, 0, 0, 0))
    /\ nops = 0
    /\ abastos = [i \in ISBNs |-> 0]
    /\ otra = SinConstruir

SpecSesion == InitSesion /\ [][Next]_vars
\* registrar_libro called directly, without the form's validation of the
\* initial quantity: any integer may arrive.
CantidadesNucleo == (-1)..MaxCant

NextNucleo ==
    \/ \E s \in Semillas, falla \in Fallas : CargarCaja(s, falla)
    \/ \E isbn \in ISBNs, titulo \in Titulos, pc \in PreciosCompra, pv \in PreciosVenta,
          q \in CantidadesNucleo, falla \in Fallas :
          RegistrarLibro(isbn, titulo, pc, pv, q, falla)
    \/ \E isbn \in ISBNs, falla \in Fallas : EliminarLibro(isbn, falla)
    \/ \E isbn \in ISBNs, q \in CantidadesMovimiento, falla \in Fallas :
          AbastecerLibro(isbn, q, falla)
    \/ \E isbn \in ISBNs, q \in CantidadesMovimiento, falla \in Fallas :
          VenderLibro(isbn, q, falla)

SpecNucleo == Init /\ [][NextNucleo]_vars

\* Two Tienda objects on one store, their calls strictly one after another:
\* the caller changes from one object to the other between two calls.  Each
\* object keeps its own self.caja; the data base is shared.
CambiarTienda ==
    /\ fase = "lista"
    /\ fase' = otra.fase
    /\ caja' = otra.caja
    /\ semilla' = otra.semilla
    /\ ingresos' = otra.ingresos
    /\ egresos' = otra.egresos
    /\ otra' = [quien |-> 3 - otra.quien, fase |-> fase, caja |-> caja,
                semilla |-> semilla, ingresos |-> ingresos, egresos |-> egresos]
    /\ UNCHANGED <<dur, con, ult, nops, abastos>>

\* failures that leave nothing pending on the connection: the first
\* statement of a call fails, or nothing does
FallasDosTiendas == {0, 1}

NextDosTiendas ==
    \/ \E s \in Semillas : CargarCaja(s, 0)
    \/ \E isbn \in ISBNs, titulo \in Titulos, pc \in PreciosCompra, pv \in PreciosVenta,
          q \in CantidadesRegistro, falla \in FallasDosTiendas :
          RegistrarLibro(isbn, titulo, pc, pv, q, falla)
    \/ \E isbn \in ISBNs, falla \in FallasDosTiendas : EliminarLibro(isbn, falla)
    \/ \E isbn \in ISBNs, q \in CantidadesMovimiento, falla \in FallasDosTiendas :
          AbastecerLibro(isbn, q, falla)
    \/ \E isbn \in ISBNs, q \in CantidadesMovimiento, falla \in FallasDosTiendas :
          VenderLibro(isbn, q, falla)
    \/ CambiarTienda

SpecDosTiendas == InitSesion /\ [][NextDosTiendas]_vars

\* ------------------------------------------------------------ claims

Lista == fase = "lista"

\* the calls that run as one unit (try ... commit / except ... rollback)
Unidades == {"registrar", "abastecer", "vender"}

\* no statement and no commit of the call failed
SinFallo(u) == u.esc = u.escOK /\ (u.commits = 0 \/ u.ok)

\* C1: a register, restock or sell call that fails after issuing a write (any
\* statement of the unit or its commit failed) leaves the committed catalog,
\* the committed transaction log, the committed 'Caja' value and Tienda.caja
\* exactly as they were when the call began.
C1_Atomicidad ==
    [][(ult'.op \in Unidades /\ ~ult'.ok /\ ult'.esc >= 1)
        => /\ dur'.libros = dur.libros
           /\ dur'.trans = dur.trans
           /\ dur'.cfg = dur.cfg
           /\ caja' = caja]_vars

\* a unit whose three statements succeeded and whose commit failed
C1_Testigo ==
    /\ Lista
    /\ ult.op \in Unidades
    /\ ~ult.ok
    /\ ult.escOK = 3
    /\ ult.commits = 1
    /\ ult.rollbacks = 1

\* C2: after any sequence of calls, whatever their outcome, Tienda.caja is
\* the balance the constructor adopted, plus sale price x quantity of every
\* sale that committed, minus purchase cost x quantity of every restock
\* (funded initial stock included) that committed.
C2_Conservacion == Lista => caja = semilla + ingresos - egresos

\* a sale and a restock committed, and the last call failed after a write
C2_Testigo ==
    /\ Lista
    /\ ingresos > 0
    /\ egresos > 0
    /\ ~ult.ok
    /\ ult.escOK >= 1

\* C3 as claimed: in every state between operations, deletes included,
\* Tienda.caja is the adopted balance plus the sale income minus the restock
\* cost of the entries present in the committed transaction log.
C3_SegunLog == Lista => caja = semilla + MontoDe(dur, dur.trans)

\* C3 as amended: in every state between operations Tienda.caja is the
\* adopted balance plus the sale income minus the restock cost of the entries
\* present in the committed transaction log and of the entries that the
\* cascade of a committed delete removed from it.
C3_SegunLogYCascada ==
    Lista => caja = semilla + MontoDe(dur, dur.trans) + dur.cascada

\* a delete removed entries that had moved the balance, others remain
C3_Testigo ==
    /\ Lista
    /\ dur.cascada # 0
    /\ dur.trans # {}
    /\ ult.op = "eliminar"
    /\ ult.ok
EntradasDe(db, isbn, tipo) == {t \in db.trans : t.isbn = isbn /\ t.tipo = tipo}

\* stock of isbn in db, 0 when it has no row
StockDe(db, isbn) ==
    IF FilasDe(db, isbn) = {} THEN 0
    ELSE (CHOOSE f \in FilasDe(db, isbn) : TRUE).cant

\* the entries a step added to the committed log
Nuevas == dur'.trans \ dur.trans

\* C4: in every committed state the stock of every book of the catalog is the
\* sum of its restock entries minus the sum of its sale entries, and no
\* commit changes a stock without adding the matching entry and moving the
\* committed balance by its amount, nor adds an entry or changes the
\* committed balance without the stock change.
C4_StockYLibroMayor ==
    /\ [](\A f \in dur.libros :
            f.cant = CantidadDe(EntradasDe(dur, f.isbn, "abastecimiento"))
                     - CantidadDe(EntradasDe(dur, f.isbn, "venta")))
    /\ [][/\ \A f \in dur'.libros :
               f.cant - StockDe(dur, f.isbn) =
                   CantidadDe({t \in Nuevas : t.isbn = f.isbn /\ t.tipo = "abastecimiento"})
                   - CantidadDe({t \in Nuevas : t.isbn = f.isbn /\ t.tipo = "venta"})
           /\ Nuevas # {} => \E v \in dur.cfg : dur'.cfg = {v + MontoDe(dur', Nuevas)}
           /\ (Lista /\ Nuevas = {}) => dur'.cfg = dur.cfg]_vars

\* C5: registrar_libro of an identifier that buscar_libro_por_isbn finds
\* returns (False, "... ya existe") without any write, commit or rollback and
\* changes nothing; and no two rows of Libros, committed or pending, share
\* an identifier.
SinDuplicados(db) == \A f \in db.libros : \A g \in db.libros : f.isbn = g.isbn => f = g

C5_Unicidad ==
    /\ [](SinDuplicados(dur) /\ SinDuplicados(con))
    /\ [][(ult'.op = "registrar" /\ ExisteLibro(ult'.isbn))
            => /\ ~ult'.ok
               /\ ult'.cod = "ya_existe"
               /\ ult'.esc = 0
               /\ ult'.commits = 0
               /\ ult'.rollbacks = 0
               /\ con' = con
               /\ dur' = dur
               /\ caja' = caja]_vars

\* a register of an identifier already in the catalog was rejected
C5_Testigo ==
    /\ ult.op = "registrar"
    /\ ult.cod = "ya_existe"
    /\ ExisteLibro(ult.isbn)

\* C6: in every committed state reached by register, restock, sell and
\* delete calls the stock of every book of the catalog is >= 0.
C6_StockNoNegativo == \A f \in dur.libros : f.cant >= 0

\* a sale that committed took the last copy of a book
C6_Testigo ==
    /\ ult.op = "vender"
    /\ ult.ok
    /\ StockDe(dur, ult.isbn) = 0
    /\ ExisteLibro(ult.isbn)

\* the register calls of a new identifier in which nothing fails
RegistroNuevo == ult'.op = "registrar" /\ ~ExisteLibro(ult'.isbn) /\ SinFallo(ult')

\* C7: a register of a new identifier with initial quantity q > 0 and balance
\* >= purchase cost x q, in which nothing fails, returns success and commits
\* a row with stock q, the balance in memory and the committed 'Caja' value
\* both reduced by exactly purchase cost x q, and exactly one restock entry of
\* quantity q for the book.
C7_RegistroFondeado ==
    [][(RegistroNuevo /\ ult'.cant > 0 /\ caja >= ult'.pc * ult'.cant)
        => /\ ult'.ok
           /\ {f.cant : f \in FilasDe(dur', ult'.isbn)} = {ult'.cant}
           /\ caja' = caja - ult'.pc * ult'.cant
           /\ \E v \in dur.cfg : dur'.cfg = {v - ult'.pc * ult'.cant}
           /\ EntradasDe(dur', ult'.isbn, "venta") = {}
           /\ \E t \in dur'.trans :
                 /\ EntradasDe(dur', ult'.isbn, "abastecimiento") = {t}
                 /\ t.cant = ult'.cant]_vars

\* C8: a register of a new identifier with q > 0 and balance < purchase cost
\* x q returns success with the "not funded" message and commits a row whose
\* stock is 0; the balance in memory and the committed 'Caja' value are
\* unchanged and no transaction entry is created.
C8_RegistroSinFondos ==
    [][(RegistroNuevo /\ ult'.cant > 0 /\ caja < ult'.pc * ult'.cant)
        => /\ ult'.ok
           /\ ult'.cod = "sin_fondos"
           /\ {f.cant : f \in FilasDe(dur', ult'.isbn)} = {0}
           /\ caja' = caja
           /\ dur'.cfg = dur.cfg
           /\ Nuevas = {}]_vars

\* C9: a register of a new identifier with initial quantity 0 commits a row
\* with stock 0, creates no transaction entry and leaves the balance in
\* memory and the committed 'Caja' value unchanged.
C9_RegistroSinStock ==
    [][(RegistroNuevo /\ ult'.cant = 0)
        => /\ ult'.ok
           /\ {f.cant : f \in FilasDe(dur', ult'.isbn)} = {0}
           /\ Nuevas = {}
           /\ caja' = caja
           /\ dur'.cfg = dur.cfg]_vars

\* C10: a sell of q > 0 copies of an existing book with stock >= q, in which
\* nothing fails, returns success and commits the stock decreased by exactly
\* q, the balance in memory and the committed 'Caja' value both increased by
\* exactly sale price x q, and exactly one sale entry of quantity q.
C10_VentaExitosa ==
    [][(/\ ult'.op = "vender"
        /\ ExisteLibro(ult'.isbn)
        /\ ult'.cant > 0
        /\ StockDe(con, ult'.isbn) >= ult'.cant
        /\ SinFallo(ult'))
        => LET f == CHOOSE x \in FilasDe(con, ult'.isbn) : TRUE IN
           /\ ult'.ok
           /\ {x.cant : x \in FilasDe(dur', ult'.isbn)} = {f.cant - ult'.cant}
           /\ caja' = caja + f.pv * ult'.cant
           /\ \E v \in dur.cfg : dur'.cfg = {v + f.pv * ult'.cant}
           /\ \E t \in dur'.trans :
                 /\ Nuevas = {t}
                 /\ t.isbn = ult'.isbn
                 /\ t.tipo = "venta"
                 /\ t.cant = ult'.cant]_vars

\* the call left con, dur and Tienda.caja as they were and used the gateway
\* for nothing but its one SELECT
SinEfecto ==
    /\ ult'.esc = 0
    /\ ult'.commits = 0
    /\ ult'.rollbacks = 0
    /\ ult'.lect = 1
    /\ con' = con
    /\ dur' = dur
    /\ caja' = caja

\* C11: a restock of q > 0 copies of an existing book with balance >= purchase
\* cost x q, in which nothing fails, returns success and commits the stock
\* increased by exactly q, the balance in memory and the committed 'Caja'
\* value both decreased by exactly purchase cost x q, and exactly one restock
\* entry of quantity q for the book.
C11_AbastecimientoExitoso ==
    [][(/\ ult'.op = "abastecer"
        /\ ExisteLibro(ult'.isbn)
        /\ ult'.cant > 0
        /\ caja >= BuscarLibro(ult'.isbn).precio_compra * ult'.cant
        /\ SinFallo(ult'))
        => LET f == CHOOSE x \in FilasDe(con, ult'.isbn) : TRUE IN
           /\ ult'.ok
           /\ {x.cant : x \in FilasDe(dur', ult'.isbn)} = {f.cant + ult'.cant}
           /\ caja' = caja - f.pc * ult'.cant
           /\ \E v \in dur.cfg : dur'.cfg = {v - f.pc * ult'.cant}
           /\ \E t \in dur'.trans :
                 /\ Nuevas = {t}
                 /\ t.isbn = ult'.isbn
                 /\ t.tipo = "abastecimiento"
                 /\ t.cant = ult'.cant]_vars

\* C12: a sell of q > 0 copies of an existing book whose stock is < q returns
\* (False, "Stock insuficiente ...") having issued its one SELECT (the lookup
\* of the book) and no write, commit or rollback; catalogue, transaction log,
\* 'Caja' value and Tienda.caja are as before the call.
C12_VentaSinStock ==
    [][(/\ ult'.op = "vender"
        /\ ExisteLibro(ult'.isbn)
        /\ ult'.cant > 0
        /\ StockDe(con, ult'.isbn) < ult'.cant)
        => /\ ~ult'.ok
           /\ ult'.cod = "stock_insuficiente"
           /\ SinEfecto]_vars

\* a sell of more copies than the book has was refused, the book having stock
C12_Testigo ==
    /\ ult.op = "vender"
    /\ ult.cod = "stock_insuficiente"
    /\ StockDe(con, ult.isbn) > 0
    /\ StockDe(con, ult.isbn) < ult.cant

\* C13: a restock of q > 0 copies of an existing book is refused with "Caja
\* insuficiente" exactly when Tienda.caja < purchase cost x q (a cost equal
\* to the balance is accepted); the refused call issues no write, commit or
\* rollback and leaves stock, transaction log, 'Caja' value and Tienda.caja
\* as before the call.
C13_AbastecimientoSinFondos ==
    [][(/\ ult'.op = "abastecer"
        /\ ExisteLibro(ult'.isbn)
        /\ ult'.cant > 0)
        => /\ (ult'.cod = "caja_insuficiente")
                <=> (caja < BuscarLibro(ult'.isbn).precio_compra * ult'.cant)
           /\ (ult'.cod = "caja_insuficiente") => (~ult'.ok /\ SinEfecto)]_vars

\* a restock that costs more than the balance was refused
C13_Testigo ==
    /\ ult.op = "abastecer"
    /\ ult.cod = "caja_insuficiente"
    /\ ExisteLibro(ult.isbn)
    /\ caja < BuscarLibro(ult.isbn).precio_compra * ult.cant

\* C14 as claimed: every restock and every sell called with quantity <= 0 is
\* refused as an invalid quantity ("Cantidad a ... debe ser positiva"),
\* whether or not the identifier is in the catalogue, and changes nothing.
C14_CantidadInvalida ==
    [][(ult'.op \in {"abastecer", "vender"} /\ ult'.cant <= 0)
        => /\ ~ult'.ok
           /\ ult'.cod = "cantidad"
           /\ SinEfecto]_vars

\* C14 as amended: every restock and every sell called with quantity <= 0
\* fails and changes nothing (no write, commit or rollback, balance
\* unchanged); the failure is the invalid quantity when the identifier is in
\* the catalogue and "no existe" when it is not, because the lookup of the
\* book comes before the check of the quantity.
C14_CantidadInvalidaOLibroAusente ==
    [][(ult'.op \in {"abastecer", "vender"} /\ ult'.cant <= 0)
        => /\ ~ult'.ok
           /\ ult'.cod = IF ExisteLibro(ult'.isbn) THEN "cantidad" ELSE "no_existe"
           /\ SinEfecto]_vars

\* a restock or sell of 0 copies of a book of the catalogue was refused
C14_Testigo ==
    /\ ult.op \in {"abastecer", "vender"}
    /\ ult.cant = 0
    /\ ult.cod = "cantidad"
    /\ ExisteLibro(ult.isbn)

\* C15: a restock, sell or delete of an identifier that is not in the
\* catalogue returns (False, "... no existe") having issued no write, commit
\* or rollback, with catalogue, transaction log, 'Caja' value and Tienda.caja
\* unchanged; and these calls return "no existe" only for an identifier that
\* is not in the catalogue.
C15_LibroAusente ==
    [][(ult'.op \in {"abastecer", "vender", "eliminar"})
        => /\ FilasDe(con, ult'.isbn) = {}
                => (~ult'.ok /\ ult'.cod = "no_existe" /\ SinEfecto)
           /\ ult'.cod = "no_existe" => FilasDe(con, ult'.isbn) = {}]_vars

\* a call on an absent identifier was refused while the catalogue holds
\* another book
C15_Testigo ==
    /\ ult.op \in {"abastecer", "vender", "eliminar"}
    /\ ult.cod = "no_existe"
    /\ FilasDe(con, ult.isbn) = {}
    /\ con.libros # {}

\* C16: a delete that returns success has issued exactly one write (the
\* DELETE of the Libros row) and one commit; afterwards, through the
\* connection and in the committed data base alike, buscar_libro_por_isbn
\* finds no book, the catalogue does not contain the identifier, the
\* history of the identifier is empty and no Transacciones row references
\* it.
C16_EliminacionExitosa ==
    [][(ult'.op = "eliminar" /\ ult'.ok)
        => /\ FilasDe(con, ult'.isbn) # {}
           /\ ult'.esc = 1
           /\ ult'.commits = 1
           /\ \A db \in {con', dur'} :
                 /\ BuscarLibroPorIsbn(db, ult'.isbn) = {}
                 /\ ult'.isbn \notin IsbnsDelCatalogoCompleto(db)
                 /\ ObtenerTransaccionesDeLibro(db, ult'.isbn) = {}
                 /\ \A t \in db.trans : t.isbn # ult'.isbn]_vars

\* a delete committed for a book that had entries in the log, while entries
\* of another book remain
C16_Testigo ==
    /\ ult.op = "eliminar"
    /\ ult.ok
    /\ dur.cascada # 0
    /\ FilasDe(dur, ult.isbn) = {}
    /\ \E t \in dur.trans : t.isbn # ult.isbn

\* the constructor ran from a data base that holds a 'Caja' row
CargaConValor == ult'.op = "cargar" /\ dur.cfg # {}

\* the constructor ran from a data base without 'Caja' row
CargaSinValor == ult'.op = "cargar" /\ dur.cfg = {}

\* C17: when the data base holds a 'Caja' row, the constructor sets
\* Tienda.caja to exactly the stored value, whatever the default it was
\* given, and issues one SELECT and no write and no commit, so that the
\* stored value stays as it was.
C17_CargaValorGuardado ==
    [][CargaConValor
        => /\ \E v \in dur.cfg : dur.cfg = {v} /\ caja' = v
           /\ ult'.lect = 1
           /\ ult'.esc = 0
           /\ ult'.commits = 0
           /\ ult'.rollbacks = 0
           /\ dur' = dur
           /\ con' = con]_vars

\* a store was constructed on a stored value that differs from the default
C17_Testigo ==
    /\ ult.op = "cargar"
    /\ ult.cod = "cargada"
    /\ dur.cfg = {caja}
    /\ caja # ult.defecto

\* C18: when the data base holds no 'Caja' row and neither the INSERT nor
\* its commit fails, the constructor issues exactly one write (the INSERT of
\* the default), commits it by itself, and ends with Tienda.caja = the
\* committed 'Caja' value = the default.
C18_CargaSiembra ==
    [][(CargaSinValor /\ SinFallo(ult'))
        => /\ ult'.esc = 1
           /\ ult'.commits = 1
           /\ ult'.rollbacks = 0
           /\ caja' = ult'.defecto
           /\ dur'.cfg = {ult'.defecto}
           /\ con' = dur']_vars

\* the default was inserted and committed
C18_Testigo ==
    /\ ult.op = "cargar"
    /\ ult.cod = "sembrada"
    /\ dur.cfg = {ult.defecto}
    /\ caja = ult.defecto

\* C19: when the INSERT of the default or its commit fails the constructor
\* still returns with Tienda.caja = the default; and in each of its outcomes
\* (row present, row absent, seed write failed) Tienda.caja is a number when
\* the constructor returns.
C19_CargaConFallo ==
    [][(ult'.op = "cargar")
        => /\ caja' \in Int
           /\ ult'.cod \in {"cargada", "sembrada", "sin_persistir"}
           /\ (CargaSinValor /\ ~SinFallo(ult'))
                => (ult'.cod = "sin_persistir" /\ caja' = ult'.defecto)]_vars

\* the seed write failed and the store holds the default in memory only
C19_Testigo ==
    /\ ult.op = "cargar"
    /\ ult.cod = "sin_persistir"
    /\ caja = ult.defecto
    /\ dur.cfg = {}

Mutaciones == {"registrar", "abastecer", "vender", "eliminar"}

Consultas ==
    {"buscar_libro_por_isbn", "buscar_libros_por_titulo",
     "calcular_transacciones_abastecimiento", "buscar_libro_mas_costoso",
     "buscar_libro_menos_costoso", "buscar_libro_mas_vendido",
     "obtener_catalogo_completo", "obtener_transacciones_de_libro"}

\* the step is a second call of the read method just called, with the same
\* argument; no other call came between them
MismaConsulta ==
    /\ ult.op \in Consultas
    /\ ult'.op = ult.op
    /\ ult'.isbn = ult.isbn
    /\ ult'.arg = ult.arg

\* C21: a read method called twice with the same argument and no mutation in
\* between returns the same value both times, also when several books have
\* the same sale price or the same total sold.
C21_LecturasIdempotentes == [][MismaConsulta => ult'.res = ult.res]_vars

\* s occurs in t as a run of consecutive characters, letters compared without
\* regard to case
Contiene(t, s) ==
    \E i \in 1..(Len(t) - Len(s) + 1) :
        \A k \in 1..Len(s) : Minuscula(t[i + k - 1]) = Minuscula(s[k])

\* every element of the sequence q once
Elementos(q) == {q[i] : i \in 1..Len(q)}

\* C22: buscar_libros_por_titulo(s) returns the books of the catalogue whose
\* title contains s as a substring, compared without regard to case, each
\* once and no other book, as a sequence sorted by title (the empty sequence
\* when no title matches).
C22_BusquedaPorTitulo ==
    [][(ult'.op = "buscar_libros_por_titulo")
        => LET r == ult'.res
               esperados == {Libro(f) : f \in {x \in con.libros : Contiene(x.titulo, ult'.arg)}}
           IN /\ Elementos(r) = esperados
              /\ Len(r) = Cardinality(esperados)
              /\ \A i, j \in 1..Len(r) : i < j => TituloMenorIgual(r[i].titulo, r[j].titulo)]_vars

\* C23: buscar_libro_mas_costoso returns a book of the catalogue whose sale
\* price is >= the sale price of every book of the catalogue,
\* buscar_libro_menos_costoso one whose sale price is <= that of every book,
\* and each returns None exactly when the catalogue is empty.
C23_Extremos ==
    [][(ult'.op \in {"buscar_libro_mas_costoso", "buscar_libro_menos_costoso"})
        => LET r == ult'.res IN
           /\ (r = <<>>) <=> (con.libros = {})
           /\ r # <<>> =>
                /\ Len(r) = 1
                /\ \E f \in con.libros : r[1] = Libro(f)
                /\ \A f \in con.libros :
                      IF ult'.op = "buscar_libro_mas_costoso"
                      THEN r[1].precio_venta >= f.pv
                      ELSE r[1].precio_venta <= f.pv]_vars

\* the dearest of two books of different sale price was returned
C23_Testigo ==
    /\ ult.op = "buscar_libro_mas_costoso"
    /\ ult.res # <<>>
    /\ \E f \in con.libros : f.pv < ult.res[1].precio_venta

C25_ConteoAbastecimientos ==
    [][(ult'.op = "calcular_transacciones_abastecimiento")
        => IF FilasDe(con, ult'.isbn) = {}
           THEN ult'.res = <<FALSE>>
           ELSE /\ ult'.res = <<TRUE, Cardinality(EntradasDe(con, ult'.isbn, "abastecimiento"))>>
                /\ ult'.res = <<TRUE, abastos[ult'.isbn]>>]_vars

\* the count returned is 2 for a book that also has a sale entry
C25_Testigo ==
    /\ ult.op = "calcular_transacciones_abastecimiento"
    /\ ult.res = <<TRUE, 2>>
    /\ EntradasDe(con, ult.isbn, "venta") # {}

\* C26: obtener_transacciones_de_libro(id) returns the entries of the log
\* that reference id, each once and no other, latest timestamp first, so that
\* the entry of a later operation on the book comes before the entry of an
\* earlier one.
C26_Historial ==
    [][(ult'.op = "obtener_transacciones_de_libro")
        => LET r == ult'.res
               esperadas == {Transaccion(t) : t \in {x \in con.trans : x.isbn = ult'.isbn}}
           IN /\ Elementos(r) = esperadas
              /\ Len(r) = Cardinality(esperadas)
              /\ \A i, j \in 1..Len(r) :
                    i < j => (r[i].fecha >= r[j].fecha /\ r[i].id > r[j].id)]_vars

\* the history returned has two entries while the log has entries of another
\* book
C26_Testigo ==
    /\ ult.op = "obtener_transacciones_de_libro"
    /\ Len(ult.res) = 2
    /\ ult.res[1].fecha > ult.res[2].fecha
    /\ \E t \in con.trans : t.isbn # ult.isbn

\* C27: in every committed state every entry of the log has a quantity > 0
\* and kind 'venta' or 'abastecimiento'; and an entry is never modified: an
\* entry found before and after a step has the same book identifier, kind,
\* timestamp and quantity.
C27_LogInmutable ==
    /\ [](\A t \in dur.trans : t.cant > 0 /\ t.tipo \in {"venta", "abastecimiento"})
    /\ [][\A t \in dur.trans : \A u \in dur'.trans : t.id = u.id => t = u]_vars

\* an entry of each kind is in the committed log and the older one has come
\* through a later commit
C27_Testigo ==
    /\ \E t \in dur.trans : \E u \in dur.trans :
          /\ t.tipo = "venta"
          /\ u.tipo = "abastecimiento"
          /\ u.id < t.id
    /\ ult.ok
    /\ ult.op = "vender"

\* C28: a read method issues no write, no commit and no rollback and leaves
\* the catalogue, the log, the 'Caja' value (committed and pending) and
\* Tienda.caja unchanged; and the log and the 'Caja' value change only in a
\* step of register, restock, sell, delete or the constructor.
C28_LecturasNoMutan ==
    [][/\ ult'.op \in Consultas
            => /\ ult'.esc = 0
               /\ ult'.commits = 0
               /\ ult'.rollbacks = 0
               /\ con' = con
               /\ dur' = dur
               /\ caja' = caja
       /\ (\/ dur'.trans # dur.trans
           \/ dur'.cfg # dur.cfg
           \/ con'.trans # con.trans
           \/ con'.cfg # con.cfg)
            => ult'.op \in Mutaciones \cup {"cargar"}]_vars

\* a read method was called while the connection held an uncommitted write,
\* which is still uncommitted
C28_Testigo ==
    /\ ult.op \in Consultas
    /\ con # dur

\* C29: every register, restock, sell and delete that issues at least one
\* write ends, before it returns, in one of two ways: its writes committed by
\* one commit and no rollback, or discarded by one rollback; it never
\* returns with a write issued that was neither committed nor rolled back.
C29_CommitORollback ==
    [][(ult'.op \in Mutaciones /\ ult'.esc >= 1)
        => \/ /\ ult'.ok
              /\ ult'.commits = 1
              /\ ult'.rollbacks = 0
              /\ con' = dur'
           \/ /\ ~ult'.ok
              /\ ult'.rollbacks = 1
              /\ con' = dur'
              /\ dur' = dur]_vars

\* The states an invocation goes through, read off the gateway calls it made:
\* it validates; without any write it is rejected; with a write it has been
\* mutating; it has been committing if db.commit() was called and rolling
\* back if db.rollback() was called; it ends done if it returns True and
\* failed if not.
Camino(u) ==
    <<"validating">>
    \o (IF u.esc = 0 THEN <<"rejected">>
        ELSE <<"mutating">>
             \o (IF u.commits >= 1 THEN <<"committing">> ELSE <<>>)
             \o (IF u.rollbacks >= 1 THEN <<"rolling_back">> ELSE <<>>)
             \o (IF u.ok THEN <<"done">> ELSE <<"failed">>))

\* the rest of C30 besides the paths: the commit is issued only after every
\* write of the unit succeeded, and an invocation that ends rejected has
\* issued no write, commit or rollback and has changed nothing
OrdenYRechazo ==
    /\ ult'.commits >= 1 => ult'.esc = ult'.escOK
    /\ ult'.commits <= 1
    /\ ult'.rollbacks <= 1
    /\ Camino(ult')[Len(Camino(ult'))] = "rejected" => (~ult'.ok /\ SinEfecto)

\* C30 as claimed: every register, restock and sell ends done, rejected or
\* failed along validating -> mutating -> committing -> done, validating ->
\* rejected, or validating -> mutating -> rolling_back -> failed; the commit
\* comes only after every write succeeded and a rejected invocation has no
\* side effect.
C30_MaquinaDeEstados ==
    [][(ult'.op \in Unidades)
        => /\ Camino(ult') \in
                {<<"validating", "mutating", "committing", "done">>,
                 <<"validating", "rejected">>,
                 <<"validating", "mutating", "rolling_back", "failed">>}
           /\ OrdenYRechazo]_vars

\* C30 as amended: the paths are those three and, when the commit itself
\* fails, validating -> mutating -> committing -> rolling_back -> failed.
C30_MaquinaConFalloDeCommit ==
    [][(ult'.op \in Unidades)
        => /\ Camino(ult') \in
                {<<"validating", "mutating", "committing", "done">>,
                 <<"validating", "rejected">>,
                 <<"validating", "mutating", "rolling_back", "failed">>,
                 <<"validating", "mutating", "committing", "rolling_back", "failed">>}
           /\ OrdenYRechazo]_vars

\* a register whose only write succeeded and whose commit failed ended failed
\* after rolling back
C30_Testigo ==
    /\ ult.op = "registrar"
    /\ Camino(ult) = <<"validating", "mutating", "committing", "rolling_back", "failed">>
    /\ ult.esc = 1
    /\ con = dur

\* the entries a step removed from the committed log
Idas == dur.trans \ dur'.trans

\* C31: each sell, each restock and each register with funded positive
\* initial quantity that returns success adds exactly one entry to the
\* committed log; every other call (rejected, failed, register with quantity
\* 0 or unfunded, any read method) adds none; and entries leave the log only
\* in a delete of the book they reference that returns success.
C31_CicloDeEntradas ==
    [][/\ IF /\ ult'.ok
             /\ \/ ult'.op \in {"vender", "abastecer"}
                \/ (ult'.op = "registrar" /\ ult'.cod = "ok" /\ ult'.cant > 0)
          THEN \E t \in dur'.trans :
                  /\ Nuevas = {t}
                  /\ t.isbn = ult'.isbn
                  /\ t.cant = ult'.cant
                  /\ t.tipo = IF ult'.op = "vender" THEN "venta" ELSE "abastecimiento"
          ELSE Nuevas = {}
       /\ Idas # {}
            => /\ ult'.op = "eliminar"
               /\ ult'.ok
               /\ \A t \in Idas : t.isbn = ult'.isbn]_vars

\* C32: when delete(id) returns success, the removal of the book and of its
\* entries is durable at return, through one commit issued inside the call,
\* and that commit changes the durable state by nothing else: no write of
\* any other operation becomes durable with it.
C32_EliminarCommitPropio ==
    [][(ult'.op = "eliminar" /\ ult'.ok)
          => /\ ult'.commits = 1
             /\ FilasDe(dur', ult'.isbn) = {}
             /\ {t \in dur'.trans : t.isbn = ult'.isbn} = {}
             /\ dur' = Ejecutar(dur, DelLibro(ult'.isbn))]_vars

\* C33: whenever no operation is in progress (after the constructor and after
\* every register, restock, sell or delete has returned, with any outcome),
\* the value durably persisted under 'Caja' is the in-memory balance.
C33_CajaReconciliada == Lista => dur.cfg = {caja}

\* C34: between operations the connection holds no uncommitted write: what
\* the connection sees is what is committed.
C34_SinEscriturasPendientes == Lista => con = dur

\* C35: with a loaded balance >= 0 and purchase costs and sale prices >= 0
\* (every seed, stored balance and price of the model), after any sequence of
\* register, restock, sell and delete calls the in-memory balance is >= 0 and
\* so is the balance persisted under 'Caja', committed or seen through the
\* connection.
C35_CajaNoNegativa ==
    Lista => /\ caja >= 0
             /\ \A v \in dur.cfg \cup con.cfg : v >= 0

\* a purchase that takes the whole balance and returns success
C35_Testigo ==
    /\ Lista
    /\ ult.op \in {"registrar", "abastecer"}
    /\ ult.ok
    /\ ult.cant > 0
    /\ caja = 0
    /\ dur.cfg = {0}

\* C36: registrar_libro called with a negative initial quantity never commits
\* a catalog row whose stock is negative: every book of the durable catalog
\* has stock >= 0, whatever integer the call received.
C36_NucleoStockNoNegativo == \A f \in dur.libros : f.cant >= 0

\* what a data base holds about one book: its row and the entries that
\* reference it
DatosDe(db, isbn) == <<FilasDe(db, isbn), {t \in db.trans : t.isbn = isbn}>>

\* title, purchase cost and sale price of the rows of a book
FichaDe(db, isbn) == {<<f.titulo, f.pc, f.pv>> : f \in FilasDe(db, isbn)}

\* C37: a register, restock, sell or delete on identifier A leaves the row
\* (title, purchase cost, sale price, stock) of every other book and every
\* entry that references another book unchanged, in the committed state and
\* as seen through the connection; restock and sell leave A's title, purchase
\* cost and sale price unchanged; delete leaves the balance unchanged, in
\* memory and persisted.
C37_Marco ==
    [][ult'.op \in Mutaciones
          => /\ \A b \in ISBNs \ {ult'.isbn} :
                   /\ DatosDe(dur', b) = DatosDe(dur, b)
                   /\ DatosDe(con', b) = DatosDe(con, b)
             /\ ult'.op \in {"abastecer", "vender"}
                   => /\ FichaDe(dur', ult'.isbn) = FichaDe(dur, ult'.isbn)
                      /\ FichaDe(con', ult'.isbn) = FichaDe(con, ult'.isbn)
             /\ ult'.op = "eliminar"
                   => /\ caja' = caja
                      /\ dur'.cfg = dur.cfg
                      /\ con'.cfg = con.cfg]_vars

\* the balance the first of the two Tienda objects adopted
SemillaPrimera == IF otra.quien = 2 THEN semilla ELSE otra.semilla

\* C38: two Tienda objects on one store, calls strictly serialized: after
\* every call the persisted balance is the seed plus the sale income minus
\* the restock cost of every call of either object that committed, and the
\* persisted stock of each book is its committed restocks minus its committed
\* sales.
C38_DosTiendas ==
    Lista => /\ dur.cfg = {SemillaPrimera + (ingresos + otra.ingresos)
                                          - (egresos + otra.egresos)}
             /\ \A f \in dur.libros :
                   f.cant = CantidadDe(EntradasDe(dur, f.isbn, "abastecimiento"))
                            - CantidadDe(EntradasDe(dur, f.isbn, "venta"))

====
